---------------------------- MODULE Spec2Model ----------------------------
(***************************************************************************)
(* A model of the evaluation utilities of DINOv2ForMedical:                *)
(*   - dinov2/eval/segmentation/utils.py   (DINOV2Encoder, LinearDecoder,  *)
(*                                          LinearPostprocessor,           *)
(*                                          AllDecoders, setup_decoders)   *)
(*   - dinov2/eval/classification/utils.py (classifier_forward_pass)       *)
(*   - dinov2/data/datasets/shenzhen.py    (Shenzhen, _Split, make_splits) *)
(*   - dinov2/eval/mlknn.py                (eval_knn, eval_knn_with_model) *)
(*                                                                         *)
(* Tensors are records [ok, shape, data]: data is the row-major sequence   *)
(* of the elements, and ok = FALSE stands for the exception the torch call *)
(* raises.  Elements are provenance tags, so that a property can say which *)
(* slice, head or class an output element was computed from.               *)
(***************************************************************************)
EXTENDS Integers, Sequences, FiniteSets, TLC

VARIABLES
    pc,              \* position of the operation under study
    data,            \* the batch handed to the encoder / classifier_forward_pass
    is_3d,           \* the is_3d flag of the module / call
    encoder_calls,   \* the inputs the encoder was invoked on, in call order
    batch_features,  \* what DINOV2Encoder.forward returned
    heads,           \* classifier_heads.module.classifiers_dict.keys(), in order
    num_classes,     \* output width of every head / decoder
    head_out_rank,   \* 1: a head returns (C,), 2: a head returns (1, C)
    outputs,         \* what classifier_forward_pass returned
    post,            \* what LinearPostprocessor.forward returned
    \* setup_decoders
    pcDec,
    learning_rates,  \* the caller's list, in units of 10^-11
    decoder_type,
    distributed_enabled,
    decoders,        \* the ensemble setup_decoders returned
    optim_param_groups,
    decoders_len,    \* what len() of the ensemble returned
    \* Shenzhen
    pcShen,
    root,            \* the root directory
    split,           \* the split handed to the constructor
    fs,              \* the file system: one directory and the names in it
    split_dir,       \* self._split_dir
    log,             \* the records logged
    listdir_calls,   \* the directories enumerated, in call order
    images,          \* self.images
    shen_error,      \* the exception the constructor raised
    shen_len,        \* what __len__ returned
    index,           \* the index of the last get_target
    mask,            \* the mask it read
    mask_path,       \* the path it read the mask from
    target,          \* what it returned
    \* make_splits
    pcMs,
    image_listing,   \* what os.listdir(image_path) returns
    mask_listing,    \* what os.listdir(mask_path) returns
    masked_images,   \* the images of image_listing that have a mask, in its order
    cxr_png,         \* the files of image_path
    image_names,
    mask_names,
    images_df,       \* the data frame images
    test_list,
    val_list,
    test_set,
    train_val_set,
    val_set,
    train_set,
    made_dirs,       \* the split directories created
    moved,           \* the files of each split directory, in the order moved
    ms_error,        \* the exception make_splits raised
    \* eval_knn_with_model
    pcKnn,
    nb_knn,          \* the list of k values
    file0,           \* the lines of the results file before the call
    file,            \* the lines of the results file
    k_i,             \* position of the loop of eval_knn in nb_knn
    results_dict,
    classifier,      \* the classifier of the current iteration
    knn_calls        \* the classifier operations made, in order

vars3d == <<pc, data, is_3d, encoder_calls, batch_features, heads, num_classes,
            head_out_rank, outputs, post>>

varsDec == <<pcDec, learning_rates, decoder_type, distributed_enabled, decoders,
             optim_param_groups, decoders_len>>

varsShen == <<pcShen, root, split, fs, split_dir, log, listdir_calls, images,
              shen_error, shen_len, index, mask, mask_path, target>>

varsKnn == <<pcKnn, nb_knn, file0, file, k_i, results_dict, classifier, knn_calls>>

varsMs == <<pcMs, image_listing, mask_listing, masked_images, cxr_png, image_names,
            mask_names, images_df, test_list, val_list, test_set, train_val_set,
            val_set, train_set, made_dirs, moved, ms_error>>

vars == <<vars3d, varsDec, varsShen, varsKnn, varsMs>>

---------------------------------------------------------------------------
(* Bounds of the model *)

\* slices of a whole 3D batch (summed over its volumes)
MaxSlices == 5
\* slices of a whole batch when heads or decoders are run on it
MaxTensorSlices == 3
\* classifier heads of the ensemble
MaxHeads == 3
\* classes of a head or of a decoder
MaxClasses == 3
\* token grid (32 x 32 in the code) and embedding width, scaled down
tokenW == 1
tokenH == 1
in_channels == 1
\* side of the interpolated logit map (448 in the code), scaled down
OutSize == 2

\* longest list of learning rates
MaxLrs == 3
\* files of a small split directory
MaxFiles == 2
\* how far the size of a split directory is from the canonical one
MaxSizeDelta == 2
\* pixels of a mask
MaxMaskPixels == 3
\* longest list of k values
MaxKs == 3
\* lines of the results file before the run
MaxOldLines == 1
\* how far the number of images with masks is from the 566 of make_splits
MaxCountDelta == 1
\* images without a mask, and masks without an image
MaxUnmasked == 1
MaxOrphanMasks == 1

---------------------------------------------------------------------------
(* Generic helpers *)

RECURSIVE Prod(_)
Prod(s) == IF s = <<>> THEN 1 ELSE Head(s) * Prod(Tail(s))

RECURSIVE SumSeq(_)
SumSeq(s) == IF s = <<>> THEN 0 ELSE Head(s) + SumSeq(Tail(s))

RECURSIVE Flatten(_)
Flatten(ss) == IF ss = <<>> THEN <<>> ELSE Head(ss) \o Flatten(Tail(ss))

Range(s) == {s[i] : i \in DOMAIN s}

---------------------------------------------------------------------------
(* torch tensors *)

T(shape, d) == [ok |-> TRUE, shape |-> shape, data |-> d]

Err == [ok |-> FALSE, shape |-> <<>>, data |-> <<>>]

Rank(t) == Len(t.shape)

\* Tensor.squeeze(): every dimension of size 1 is removed
Squeeze(t) ==
    IF ~t.ok THEN Err
    ELSE T(SelectSeq(t.shape, LAMBDA d : d # 1), t.data)

\* Tensor.unsqueeze(0)
Unsqueeze0(t) == IF ~t.ok THEN Err ELSE T(<<1>> \o t.shape, t.data)

\* torch.stack(ts, dim): a non-empty list of tensors of one shape, dim <= rank
Stack(ts, dim) ==
    IF ts = <<>> \/ \E i \in DOMAIN ts : ~ts[i].ok THEN Err
    ELSE IF \E i \in DOMAIN ts : ts[i].shape # ts[1].shape THEN Err
    ELSE IF dim > Rank(ts[1]) THEN Err
    ELSE LET sh    == ts[1].shape
             n     == Len(ts)
             inner == Prod(SubSeq(sh, dim + 1, Len(sh)))
             outer == Prod(SubSeq(sh, 1, dim))
         IN  T(SubSeq(sh, 1, dim) \o <<n>> \o SubSeq(sh, dim + 1, Len(sh)),
               [p \in 1..(outer * n * inner) |->
                   LET q == p - 1
                       o == q \div (n * inner)
                       j == (q \div inner) % n
                       i == q % inner
                   IN  ts[j + 1].data[o * inner + i + 1]])

\* torch.cat(ts, dim=0): a non-empty list of tensors of rank >= 1 whose shapes
\* agree beyond dimension 0
Cat0(ts) ==
    IF ts = <<>> \/ \E i \in DOMAIN ts : ~ts[i].ok THEN Err
    ELSE IF \E i \in DOMAIN ts : Rank(ts[i]) = 0 THEN Err
    ELSE IF \E i \in DOMAIN ts : Tail(ts[i].shape) # Tail(ts[1].shape) THEN Err
    ELSE T(<<SumSeq([i \in DOMAIN ts |-> ts[i].shape[1]])>> \o Tail(ts[1].shape),
           Flatten([i \in DOMAIN ts |-> ts[i].data]))

\* Tensor.argmax(dim=1): dimension 1 is reduced.  An element of the result is
\* the index of the largest of the candidates along dimension 1; the model
\* keeps the candidates themselves.
ArgmaxDim1(t) ==
    IF ~t.ok \/ Rank(t) < 2 THEN Err
    ELSE IF t.shape[2] = 0 THEN Err
    ELSE LET k     == t.shape[2]
             rest  == SubSeq(t.shape, 3, Len(t.shape))
             inner == Prod(rest)
         IN  T(<<t.shape[1]>> \o rest,
               [p \in 1..(t.shape[1] * inner) |->
                   LET a == (p - 1) \div inner
                       r == (p - 1) % inner
                   IN  [argmax_over |->
                          [c \in 1..k |-> t.data[a * k * inner + (c - 1) * inner + r + 1]]]])

\* iteration over a tensor (enumerate(t)): its slices along dimension 0;
\* a 0-d tensor cannot be iterated
Rows(t) ==
    LET inner == Prod(Tail(t.shape))
    IN  [i \in 1..t.shape[1] |->
            T(Tail(t.shape), SubSeq(t.data, (i - 1) * inner + 1, i * inner))]

Iterable(t) == t.ok /\ Rank(t) >= 1

---------------------------------------------------------------------------
(* Inputs of the 3D pipeline *)

\* a slice (scan) is its (normalised) pixels: one all-zero slice and two
\* non-zero ones
Slices == { <<-1, 0>>, <<0, 0>>, <<0, 1>> }

RECURSIVE Chunks(_, _, _)
Chunks(flat, cuts, from) ==
    IF from > Len(flat) THEN <<>>
    ELSE LET e == CHOOSE e \in from..Len(flat) :
                     /\ e \in cuts \/ e = Len(flat)
                     /\ \A f \in from..(e - 1) : f \notin cuts
         IN  <<SubSeq(flat, from, e)>> \o Chunks(flat, cuts, e + 1)

\* 3D batches of at most n slices in all: every way of cutting a sequence of
\* slices into volumes of at least one slice
Batches3D(n) ==
    UNION { { Chunks(flat, cuts, 1) : cuts \in SUBSET (1..(Len(flat) - 1)) } :
            flat \in UNION { [1..m -> Slices] : m \in 1..n } }

\* 2D batches: a sequence of images
Batches2D(n) == UNION { [1..m -> Slices] : m \in 1..n }

HeadNames == <<"h1", "h2", "h3", "h4">>

---------------------------------------------------------------------------
(* dinov2/eval/utils.py: is_zero_matrix (not among the sources) *)

is_zero_matrix(scan) == Cardinality({p \in DOMAIN scan : scan[p] # 0}) = 0

---------------------------------------------------------------------------
(* DINOV2Encoder, segmentation/utils.py *)

\* forward_: the encoder's patch tokens of a batch x of images, shape
\* (len(x), tokens, channels); every element is tagged with its image
forward_(x) ==
    LET per == tokenH * tokenW * in_channels
    IN  T(<<Len(x), tokenH * tokenW, in_channels>>,
          [p \in 1..(Len(x) * per) |->
              [of    |-> x[((p - 1) \div per) + 1],
               token |-> ((p - 1) % per) \div in_channels,
               ch    |-> (p - 1) % in_channels]])

\* the inner loop of forward_3d: the features of the scans of one volume and
\* the encoder invocations made for them
RECURSIVE forward_3d_scans_skipping_none(_)
forward_3d_scans_skipping_none(batch_scans) ==
    IF batch_scans = <<>> THEN [scans |-> <<>>, calls |-> <<>>]
    ELSE LET scan == Head(batch_scans)
             rest == forward_3d_scans_skipping_none(Tail(batch_scans))
         IN  [scans |-> <<forward_(<<scan>>)>> \o rest.scans,
              calls |-> <<(<<scan>>)>> \o rest.calls]

RECURSIVE forward_3d_scans(_)
forward_3d_scans(batch_scans) ==
    IF batch_scans = <<>> THEN [scans |-> <<>>, calls |-> <<>>]
    ELSE LET scan == Head(batch_scans)
             rest == forward_3d_scans(Tail(batch_scans))
         IN  IF ~is_zero_matrix(scan)
             THEN [scans |-> <<forward_(<<scan>>)>> \o rest.scans,
                   calls |-> <<(<<scan>>)>> \o rest.calls]
             ELSE rest

forward_3d(x) ==
    LET per == [b \in DOMAIN x |-> forward_3d_scans(x[b])]
    IN  [features |-> [b \in DOMAIN x |-> per[b].scans],
         calls    |-> Flatten([b \in DOMAIN x |-> per[b].calls])]

\* DINOV2Encoder.forward
EncoderForward ==
    /\ pc = "start"
    /\ IF is_3d
       THEN /\ batch_features' = forward_3d(data).features
            /\ encoder_calls' = forward_3d(data).calls
       ELSE /\ batch_features' = forward_(data)
            /\ encoder_calls' = <<data>>
    /\ pc' = "encoded"
    /\ UNCHANGED <<data, is_3d, heads, num_classes, head_out_rank, outputs, post>>
    /\ UNCHANGED <<varsDec, varsShen, varsKnn, varsMs>>

---------------------------------------------------------------------------
(* classifier_forward_pass, classification/utils.py *)

\* the feature model handed to classifier_forward_pass
feature_model(x) == forward_(x)

\* one classifier head on a list of features: rows x num_classes outputs when
\* rows are given, num_classes outputs otherwise, each tagged with the head,
\* the features it was computed from and its class
HeadForward(h, features, lead) ==
    LET from == [i \in DOMAIN features |-> features[i].data]
        rows == Prod(lead)
    IN  T(lead \o <<num_classes>>,
          [p \in 1..(rows * num_classes) |->
              [head |-> h, from |-> from, row |-> (p - 1) \div num_classes,
               cls |-> (p - 1) % num_classes]])

\* classifier_heads(features): one output per head, in declaration order
classifier_heads(features, lead) ==
    [i \in DOMAIN heads |-> HeadForward(heads[i], features, lead)]

RECURSIVE cfp_scans(_)
cfp_scans(batch_scans) ==
    IF batch_scans = <<>> THEN [scans |-> <<>>, calls |-> <<>>]
    ELSE LET scan == Head(batch_scans)
             rest == cfp_scans(Tail(batch_scans))
         IN  IF ~is_zero_matrix(scan)
             THEN [scans |-> <<feature_model(<<scan>>)>> \o rest.scans,
                   calls |-> <<(<<scan>>)>> \o rest.calls]
             ELSE rest

Failed == [ok |-> FALSE, items |-> <<>>]

\* the stacking of the 3D branch and the dictionary built from it
cfp_3d_outputs(features) ==
    LET outs    == [b \in DOMAIN features |->
                       classifier_heads(features[b],
                                        IF head_out_rank = 2 THEN <<1>> ELSE <<>>)]
        cls_out == [b \in DOMAIN outs |-> Squeeze(Stack(outs[b], 0))]
        stacked == Stack(cls_out, 1)
    IN  IF ~Iterable(stacked) THEN Failed
        ELSE IF stacked.shape[1] > Len(heads) THEN Failed
        ELSE [ok |-> TRUE,
              items |-> [i \in 1..stacked.shape[1] |->
                            [key |-> heads[i], value |-> Rows(stacked)[i]]]]

cfp_2d_outputs(features) ==
    LET outs == classifier_heads(features, <<features[1].shape[1]>>)
    IN  [ok |-> TRUE,
         items |-> [i \in DOMAIN heads |-> [key |-> heads[i], value |-> outs[i]]]]

ClassifierForwardPass ==
    /\ pc = "start"
    /\ IF is_3d
       THEN LET per == [b \in DOMAIN data |-> cfp_scans(data[b])]
            IN  /\ encoder_calls' = Flatten([b \in DOMAIN data |-> per[b].calls])
                /\ batch_features' = [b \in DOMAIN data |-> per[b].scans]
                /\ outputs' = cfp_3d_outputs([b \in DOMAIN data |-> per[b].scans])
       ELSE /\ encoder_calls' = <<data>>
            /\ batch_features' = <<feature_model(data)>>
            /\ outputs' = cfp_2d_outputs(<<feature_model(data)>>)
    /\ pc' = "classified"
    /\ UNCHANGED <<data, is_3d, heads, num_classes, head_out_rank, post>>
    /\ UNCHANGED <<varsDec, varsShen, varsKnn, varsMs>>

---------------------------------------------------------------------------
(* LinearDecoder and LinearPostprocessor, segmentation/utils.py *)

\* LinearDecoder.forward_: reshape(-1, height, width, in_channels), the 1x1
\* convolution and the interpolation: one (num_classes, OutSize, OutSize)
\* logit map per embedding, every logit tagged with the embedding it is
\* computed from
dec_forward_(embeddings) ==
    LET per == tokenH * tokenW * in_channels
        map == num_classes * OutSize * OutSize
    IN  IF ~embeddings.ok \/ Len(embeddings.data) % per # 0 THEN Err
        ELSE T(<<Len(embeddings.data) \div per, num_classes, OutSize, OutSize>>,
               [p \in 1..((Len(embeddings.data) \div per) * map) |->
                   LET q == p - 1
                       i == q \div map
                   IN  [src |-> SubSeq(embeddings.data, i * per + 1, (i + 1) * per),
                        cls |-> (q \div (OutSize * OutSize)) % num_classes,
                        y   |-> (q \div OutSize) % OutSize,
                        x   |-> q % OutSize]])

\* LinearDecoder.forward_3d
dec_forward_3d(embeddings, vectorized) ==
    [b \in DOMAIN embeddings |->
        IF vectorized
        THEN dec_forward_(Squeeze(Stack(embeddings[b], 0)))
        ELSE Squeeze(Stack([s \in DOMAIN embeddings[b] |->
                               dec_forward_(embeddings[b][s])], 0))]

\* the targets the caller hands to the postprocessor: per sample, one
\* OutSize x OutSize map per retained (non-empty) slice
TargetMaps(imgs) ==
    T(<<Len(imgs), OutSize, OutSize>>,
      [p \in 1..(Len(imgs) * OutSize * OutSize) |->
          [of |-> imgs[((p - 1) \div (OutSize * OutSize)) + 1],
           y  |-> ((p - 1) \div OutSize) % OutSize,
           x  |-> (p - 1) % OutSize]])

Targets ==
    IF is_3d
    THEN [b \in DOMAIN data |->
             TargetMaps(SelectSeq(data[b], LAMBDA s : ~is_zero_matrix(s)))]
    ELSE TargetMaps(data)

NoPost == [ok |-> FALSE, preds |-> Err, target |-> Err]

\* LinearPostprocessor.forward(samples, targets)
postprocess(samples, targets) ==
    LET logits == IF is_3d THEN Cat0(dec_forward_3d(samples, FALSE))
                  ELSE dec_forward_(samples)
        tgts   == IF is_3d THEN Cat0(targets) ELSE targets
        preds  == ArgmaxDim1(logits)
    IN  IF preds.ok /\ tgts.ok
        THEN [ok |-> TRUE, preds |-> preds, target |-> tgts]
        ELSE NoPost

PostprocessorForward ==
    /\ pc = "encoded"
    /\ post' = postprocess(batch_features, Targets)
    /\ pc' = "post"
    /\ UNCHANGED <<data, is_3d, encoder_calls, batch_features, heads, num_classes,
                   head_out_rank, outputs>>
    /\ UNCHANGED <<varsDec, varsShen, varsKnn, varsMs>>

---------------------------------------------------------------------------
(* setup_decoders and AllDecoders, segmentation/utils.py *)

\* a learning rate below 1 is its first LrDigits decimals; d * 10^-p is
LrDigits == 10 + 1

Decimal(d, p) == [i \in 1..LrDigits |-> IF i = p THEN d ELSE 0]

\* the learning rates a caller may sweep: 0.1, 0.01, 10^-11 and 2 * 10^-11
LrValues == { Decimal(1, 1), Decimal(1, 2), Decimal(1, LrDigits), Decimal(2, LrDigits) }

DigitChar(d) == <<"0", "1", "2", "3", "4", "5", "6", "7", "8", "9">>[d + 1]

\* digits + 1, with the carry out of the first digit
RECURSIVE Increment(_)
Increment(digits) ==
    IF digits = <<>> THEN [carry |-> 1, digits |-> <<>>]
    ELSE LET n    == Len(digits)
             last == digits[n]
         IN  IF last < 9
             THEN [carry |-> 0, digits |-> SubSeq(digits, 1, n - 1) \o <<last + 1>>]
             ELSE LET up == Increment(SubSeq(digits, 1, n - 1))
                  IN  [carry |-> up.carry, digits |-> up.digits \o <<0>>]

\* f"{lr:.10f}": lr rounded to 10 decimals (half to even): the integer part,
\* ".", 10 digits
format_10f(lr) ==
    LET kept == SubSeq(lr, 1, 10)
        next == lr[LrDigits]
        up   == next > 5 \/ (next = 5 /\ kept[10] % 2 = 1)
        r    == IF up THEN Increment(kept) ELSE [carry |-> 0, digits |-> kept]
    IN  <<DigitChar(r.carry), ".">> \o [i \in DOMAIN r.digits |-> DigitChar(r.digits[i])]

\* str.replace(".", "_")
replace_dots(str) == [i \in DOMAIN str |-> IF str[i] = "." THEN "_" ELSE str[i]]

\* the key of a decoder: f"{decoder_type}:lr={lr:.10f}".replace(".", "_")
decoder_key(type, lr) == replace_dots(<<type, ":lr=">> \o format_10f(lr))

\* ModuleDict.__setitem__: an existing key keeps its place and gets the new
\* module, a new key is appended
module_dict_set(dict, key, module) ==
    IF \E i \in DOMAIN dict : dict[i].key = key
    THEN [i \in DOMAIN dict |->
             IF dict[i].key = key THEN [key |-> key, module |-> module] ELSE dict[i]]
    ELSE Append(dict, [key |-> key, module |-> module])

\* the loop of setup_decoders from its i-th learning rate on; the i-th
\* LinearDecoder constructed is decoder i
RECURSIVE setup_loop(_, _, _, _, _)
setup_loop(type, lrs, i, dict, groups) ==
    IF i > Len(lrs) THEN [ok |-> TRUE, dict |-> dict, groups |-> groups]
    ELSE IF type # "linear"
         THEN [ok |-> FALSE, dict |-> dict, groups |-> groups]
         ELSE setup_loop(type, lrs, i + 1,
                         module_dict_set(dict, decoder_key(type, lrs[i]), i),
                         Append(groups, [params |-> i, lr |-> lrs[i]]))

NoDecoders == [ok |-> FALSE, decoders_dict |-> <<>>, ddp |-> FALSE]

\* AllDecoders.__init__ (and the DistributedDataParallel wrapper around it)
AllDecoders(decoders_dict, ddp) ==
    IF decoders_dict = <<>> THEN NoDecoders
    ELSE [ok |-> TRUE, decoders_dict |-> decoders_dict, ddp |-> ddp]

SetupDecoders ==
    /\ pcDec = "start"
    /\ LET loop == setup_loop(decoder_type, learning_rates, 1, <<>>, <<>>)
       IN  IF loop.ok /\ AllDecoders(loop.dict, distributed_enabled).ok
           THEN /\ decoders' = AllDecoders(loop.dict, distributed_enabled)
                /\ optim_param_groups' = loop.groups
                /\ pcDec' = "done"
           ELSE /\ decoders' = NoDecoders
                /\ optim_param_groups' = <<>>
                /\ pcDec' = "raised"
    /\ UNCHANGED <<learning_rates, decoder_type, distributed_enabled, decoders_len>>
    /\ UNCHANGED <<vars3d, varsShen, varsKnn, varsMs>>

\* AllDecoders.__len__ on the returned ensemble
DecodersLen ==
    /\ pcDec = "done"
    /\ decoders_len' = Len(decoders.decoders_dict)
    /\ pcDec' = "measured"
    /\ UNCHANGED <<learning_rates, decoder_type, distributed_enabled, decoders,
                   optim_param_groups>>
    /\ UNCHANGED <<vars3d, varsShen, varsKnn, varsMs>>

---------------------------------------------------------------------------
(* Shenzhen and _Split, data/datasets/shenzhen.py *)

\* _Split: the members and their values
SplitMembers ==
    { [kind |-> "enum", name |-> "TRAIN", value |-> "train"],
      [kind |-> "enum", name |-> "VAL",   value |-> "val"],
      [kind |-> "enum", name |-> "TEST",  value |-> "test"] }

\* what a caller can pass as split besides a member of _Split: an object whose
\* value is no split name, and a plain string, which has no value attribute
ForeignSplits ==
    { [kind |-> "object", name |-> "TRAINVAL", value |-> "trainval"],
      [kind |-> "str",    name |-> "train",    value |-> "train"] }

TrainLength == 361
ValLength == 91
TestLength == 114

\* _Split.length
length(s) ==
    CASE s.name = "TRAIN" -> TrainLength
      [] s.name = "VAL"   -> ValLength
      [] s.name = "TEST"  -> TestLength

\* str.upper() on the values of _Split
upper(value) ==
    CASE value = "train" -> "TRAIN"
      [] value = "val"   -> "VAL"
      [] value = "test"  -> "TEST"

\* paths and file names are sequences of tokens; "." and os.sep are tokens
sep == "/"
Roots == { <<"data">> }

\* os.listdir(path) on a file system holding one directory
listdir(filesystem, path) ==
    IF filesystem.dir = path
    THEN [raised |-> "none", names |-> filesystem.files]
    ELSE [raised |-> "FileNotFoundError", names |-> <<>>]

\* Shenzhen._define_split_dir
define_split_dir_accepting_any_value(r, s) ==
    IF s.kind = "str" THEN [raised |-> "AttributeError", split_dir |-> <<>>]
    ELSE [raised |-> "none", split_dir |-> r \o <<sep, s.value>>]

define_split_dir(r, s) ==
    IF s.kind = "str" THEN [raised |-> "AttributeError", split_dir |-> <<>>]
    ELSE IF s.value \notin {"train", "val", "test"}
         THEN [raised |-> "ValueError", split_dir |-> r \o <<sep, s.value>>]
         ELSE [raised |-> "none", split_dir |-> r \o <<sep, s.value>>]

\* Shenzhen._check_size: the record it logs
check_size_raising_on_mismatch(filesystem, dir, s) ==
    LET ls == listdir(filesystem, dir)
    IN  IF ls.raised # "none" THEN [raised |-> ls.raised, logged |-> <<>>]
        ELSE IF Len(ls.names) # length(s)
             THEN [raised |-> "ValueError", logged |-> <<>>]
             ELSE [raised |-> "none", logged |-> <<>>]

check_size(filesystem, dir, s) ==
    LET ls == listdir(filesystem, dir)
    IN  IF ls.raised # "none" THEN [raised |-> ls.raised, logged |-> <<>>]
        ELSE [raised |-> "none",
              logged |-> << [level   |-> "INFO",
                             missing |-> length(s) - Len(ls.names),
                             set     |-> upper(s.value)] >>]

\* Shenzhen.__init__
Construct ==
    /\ pcShen = "start"
    /\ LET d == define_split_dir(root, split)
           c == check_size(fs, d.split_dir, split)
       IN  IF d.raised # "none"
           THEN /\ pcShen' = "raised"
                /\ shen_error' = d.raised
                /\ split_dir' = d.split_dir
                /\ UNCHANGED <<log, listdir_calls, images>>
           ELSE IF c.raised # "none"
           THEN /\ pcShen' = "raised"
                /\ shen_error' = c.raised
                /\ split_dir' = d.split_dir
                /\ listdir_calls' = Append(listdir_calls, d.split_dir)
                /\ UNCHANGED <<log, images>>
           ELSE /\ pcShen' = "constructed"
                /\ shen_error' = "none"
                /\ split_dir' = d.split_dir
                /\ log' = log \o c.logged
                /\ listdir_calls' = listdir_calls \o <<d.split_dir, d.split_dir>>
                /\ images' = listdir(fs, d.split_dir).names
    /\ UNCHANGED <<root, split, fs, shen_len, index, mask, mask_path, target>>
    /\ UNCHANGED <<vars3d, varsDec, varsKnn, varsMs>>

\* Shenzhen.__len__ (and get_length)
GetLength ==
    /\ pcShen = "constructed"
    /\ shen_len' = Len(images)
    /\ pcShen' = "measured"
    /\ UNCHANGED <<root, split, fs, split_dir, log, listdir_calls, images, shen_error,
                   index, mask, mask_path, target>>
    /\ UNCHANGED <<vars3d, varsDec, varsKnn, varsMs>>

\* str.split(".")[0]: what precedes the first "."
RECURSIVE before_first_dot(_)
before_first_dot(name) ==
    IF name = <<>> \/ Head(name) = "." THEN <<>>
    ELSE <<Head(name)>> \o before_first_dot(Tail(name))

\* the path get_target reads the mask from
mask_path_of(r, name) ==
    (r \o <<sep, "masks">>) \o <<sep>> \o before_first_dot(name) \o <<"_mask", ".", "png">>

class_id_mapping == [background |-> 0, lung |-> 1]

\* mask[mask == 255] = class_id_mapping["lung"]
remap_all_nonzero(m) ==
    T(m.shape, [p \in DOMAIN m.data |->
                   IF m.data[p] # 0 THEN class_id_mapping["lung"] ELSE m.data[p]])

remap(m) ==
    T(m.shape, [p \in DOMAIN m.data |->
                   IF m.data[p] = 255 THEN class_id_mapping["lung"] ELSE m.data[p]])

\* the pixel values of a mask file
MaskValues == {0, 128, 255}

\* the masks a file may hold: at most n pixels
Masks(n) ==
    UNION { { T(<<h, w>>, d) : d \in [1..(h * w) -> MaskValues] } :
            <<h, w>> \in { hw \in (1..n) \X (1..n) : hw[1] * hw[2] <= n } }

\* Shenzhen.get_target(index), the mask file holding m.  The call leaves the
\* dataset as it was, so one call per run shows every outcome of a call.
GetTarget ==
    /\ pcShen = "constructed"
    /\ \E i \in DOMAIN images, m \in Masks(MaxMaskPixels) :
          /\ index' = i
          /\ mask' = m
          /\ mask_path' = mask_path_of(root, images[i])
          /\ target' = Unsqueeze0(remap(m))
    /\ pcShen' = "read"
    /\ UNCHANGED <<root, split, fs, split_dir, log, listdir_calls, images,
                   shen_error, shen_len>>
    /\ UNCHANGED <<vars3d, varsDec, varsKnn, varsMs>>

\* the names of image files
FileNames ==
    { <<"a", ".", "png">>, <<"b", ".", "png">>,
      <<"a", ".", "b", ".", "png">>, <<"a", ".", "c", ".", "png">> }

\* directory listings of at most n files: no name twice
Listings(n) ==
    { l \in UNION { [1..m -> FileNames] : m \in 0..n } :
        \A i, j \in DOMAIN l : l[i] = l[j] => i = j }

\* a directory of n scans
Scans(n) == [i \in 1..n |-> <<"CHNCXR", i, ".", "png">>]

---------------------------------------------------------------------------
(* eval_knn and eval_knn_with_model, eval/mlknn.py *)

\* the k values a caller may list
KValues == {5, 20, 100}

\* f"{k}": the decimal digits of k
RECURSIVE str(_)
str(k) == IF k < 10 THEN <<DigitChar(k)>> ELSE str(k \div 10) \o <<DigitChar(k % 10)>>

\* results_dict[key] = value: an existing key keeps its place
dict_set_appending(dict, key, value) == Append(dict, [key |-> key, value |-> value])

dict_set(dict, key, value) ==
    IF \E i \in DOMAIN dict : dict[i].key = key
    THEN [i \in DOMAIN dict |->
             IF dict[i].key = key THEN [key |-> key, value |-> value] ELSE dict[i]]
    ELSE Append(dict, [key |-> key, value |-> value])

NoClassifier == [id |-> 0, k |-> 0, fitted |-> FALSE]

\* make_dataset (twice) and the two extract_features calls of eval_knn; any of
\* them may raise
KnnExtract ==
    /\ pcKnn = "start"
    /\ \E raised \in BOOLEAN :
          pcKnn' = IF raised THEN "failed" ELSE "loop"
    /\ UNCHANGED <<nb_knn, file0, file, k_i, results_dict, classifier, knn_calls>>
    /\ UNCHANGED <<vars3d, varsDec, varsShen, varsMs>>

\* the head of an iteration: results_dict[f"{k}"] = {}, classifier = MLkNN(k),
\* classifier.fit(train_features, train_labels); fit may raise
KnnFit ==
    /\ pcKnn = "loop"
    /\ k_i <= Len(nb_knn)
    /\ results_dict' = dict_set(results_dict, str(nb_knn[k_i]), [run |-> 0, k |-> nb_knn[k_i]])
    /\ \E raised \in BOOLEAN :
          /\ pcKnn' = IF raised THEN "failed" ELSE "fitted"
          /\ classifier' = [id |-> k_i, k |-> nb_knn[k_i], fitted |-> ~raised]
    /\ knn_calls' = knn_calls \o << [op |-> "new", id |-> k_i], [op |-> "fit", id |-> k_i] >>
    /\ UNCHANGED <<nb_knn, file0, file, k_i>>
    /\ UNCHANGED <<vars3d, varsDec, varsShen, varsMs>>

\* results = classifier.predict(val_features).toarray(); predict may raise
KnnPredict ==
    /\ pcKnn = "fitted"
    /\ knn_calls' = Append(knn_calls, [op |-> "predict", id |-> classifier.id])
    /\ \E raised \in BOOLEAN :
          pcKnn' = IF raised THEN "failed" ELSE "predicted"
    /\ UNCHANGED <<nb_knn, file0, file, k_i, results_dict, classifier>>
    /\ UNCHANGED <<vars3d, varsDec, varsShen, varsMs>>

\* the same iteration end, with the line of the iteration written at once
KnnMetricsWritingAtOnce ==
    /\ pcKnn = "predicted"
    /\ \E raised \in BOOLEAN :
          IF raised
          THEN /\ pcKnn' = "failed"
               /\ UNCHANGED <<results_dict, k_i, file>>
          ELSE /\ pcKnn' = "loop"
               /\ results_dict' = dict_set(results_dict, str(nb_knn[k_i]),
                                           [run |-> k_i, k |-> nb_knn[k_i]])
               /\ file' = Append(file, [key |-> str(nb_knn[k_i]),
                                        value |-> [run |-> k_i, k |-> nb_knn[k_i]]])
               /\ k_i' = k_i + 1
    /\ UNCHANGED <<nb_knn, file0, classifier, knn_calls>>
    /\ UNCHANGED <<vars3d, varsDec, varsShen, varsMs>>

\* the metrics of the iteration, stored under f"{k}"; a metric may raise
KnnMetrics ==
    /\ pcKnn = "predicted"
    /\ \E raised \in BOOLEAN :
          IF raised
          THEN /\ pcKnn' = "failed"
               /\ UNCHANGED <<results_dict, k_i>>
          ELSE /\ pcKnn' = "loop"
               /\ results_dict' = dict_set(results_dict, str(nb_knn[k_i]),
                                           [run |-> k_i, k |-> nb_knn[k_i]])
               /\ k_i' = k_i + 1
    /\ UNCHANGED <<nb_knn, file0, file, classifier, knn_calls>>
    /\ UNCHANGED <<vars3d, varsDec, varsShen, varsMs>>

\* json.dumps({k: v}) + "\n" for every item of the dictionary
result_lines(dict) == [i \in DOMAIN dict |-> [key |-> dict[i].key, value |-> dict[i].value]]

\* the end of eval_knn_with_model: the results are appended to the file
KnnWrite ==
    /\ pcKnn = "loop"
    /\ k_i > Len(nb_knn)
    /\ file' = file \o result_lines(results_dict)
    /\ pcKnn' = "written"
    /\ UNCHANGED <<nb_knn, file0, k_i, results_dict, classifier, knn_calls>>
    /\ UNCHANGED <<vars3d, varsDec, varsShen, varsMs>>

\* the lines a results file may hold before the run
OldLines == { [key |-> <<"5">>, value |-> [run |-> 1, k |-> 5]] }

---------------------------------------------------------------------------
(* make_splits, data/datasets/shenzhen.py *)

\* the numbers make_splits is written for: the images that have masks, and
\* those left once the test set is taken out
TotalImages == 566
TrainValImages == 452

\* File names are sequences of tokens in which "." and "_" are tokens of
\* their own, as make_splits splits names on both.
\* str.split(s)
RECURSIVE py_split(_, _)
py_split(name, s) ==
    IF \A i \in DOMAIN name : name[i] # s THEN <<name>>
    ELSE LET p == CHOOSE i \in DOMAIN name :
                     name[i] = s /\ \A j \in 1..(i - 1) : name[j] # s
         IN  <<SubSeq(name, 1, p - 1)>> \o py_split(SubSeq(name, p + 1, Len(name)), s)

\* s.join(parts)
RECURSIVE py_join(_, _)
py_join(s, parts) ==
    IF parts = <<>> THEN <<>>
    ELSE IF Len(parts) = 1 THEN parts[1]
    ELSE parts[1] \o <<s>> \o py_join(s, Tail(parts))

\* parts[:-1]
all_but_last(parts) == SubSeq(parts, 1, Len(parts) - 1)

\* "_".join(image_name.split(".")[:-1])
image_name_of(f) == py_join("_", all_but_last(py_split(f, ".")))

\* "_".join(mask_name.split("_")[:-1])
mask_name_of(f) == py_join("_", all_but_last(py_split(f, "_")))

\* math.ceil(a / b) on positive integers
ceil_rounding_down(a, b) == a \div b

ceil(a, b) == (a + b - 1) \div b

\* [i for i in range(start, stop, step)], start < stop
range(start, stop, step) ==
    [i \in 1..ceil(stop - start, step) |-> start + (i - 1) * step]

\* pd.DataFrame(list): the rows carry the labels 0, 1, ...
DataFrame(values) == [i \in DOMAIN values |-> [label |-> i - 1, value |-> values[i]]]

\* df.iloc[positions]: by position, IndexError out of bounds
iloc(df, positions) ==
    IF \E p \in DOMAIN positions : positions[p] >= Len(df)
    THEN [raised |-> "IndexError", df |-> <<>>]
    ELSE [raised |-> "none", df |-> [p \in DOMAIN positions |-> df[positions[p] + 1]]]

\* df.drop(labels): by label, KeyError for a label the frame does not hold
drop(df, labels) ==
    LET keep(row) == \A l \in DOMAIN labels : labels[l] # row.label
    IN  IF \E l \in DOMAIN labels : \A i \in DOMAIN df : df[i].label # labels[l]
        THEN [raised |-> "KeyError", df |-> <<>>]
        ELSE [raised |-> "none", df |-> SelectSeq(df, keep)]

\* df.reset_index(drop=True)
reset_index(df) == [i \in DOMAIN df |-> [label |-> i - 1, value |-> df[i].value]]

\* df[0]: the column of the names
column(df) == [i \in DOMAIN df |-> df[i].value]

\* the names of the data set: CHNCXR_<id>_0.png and CHNCXR_<id>_0_mask.png
ImageFile(i) == <<"CHNCXR", "_">> \o str(i) \o <<"_", "0", ".", "png">>
MaskFile(i) == <<"CHNCXR", "_">> \o str(i) \o <<"_", "0", "_", "mask", ".", "png">>

Reverse(s) == [i \in DOMAIN s |-> s[Len(s) + 1 - i]]

\* the orders os.listdir may return a directory in
Orders == {"ascending", "descending", "rotated"}
Ordered(s, order) ==
    CASE order = "ascending"  -> s
      [] order = "descending" -> Reverse(s)
      [] order = "rotated"    -> SubSeq(s, 3, Len(s)) \o SubSeq(s, 1, 2)

\* CXR_png holding u images without a mask and n images with one, and masks
\* holding the n masks and o masks without an image
ImageListing(u, n, order) == Ordered([i \in 1..(u + n) |-> ImageFile(i)], order)
MaskListing(u, n, o) == Reverse([i \in 1..(n + o) |-> MaskFile(u + i)])

\* lines 114-118: the two directories are enumerated
MsList ==
    /\ pcMs = "start"
    /\ image_names' = [i \in DOMAIN image_listing |-> image_name_of(image_listing[i])]
    /\ mask_names' = [i \in DOMAIN mask_listing |-> mask_name_of(mask_listing[i])]
    /\ pcMs' = "listed"
    /\ UNCHANGED <<image_listing, mask_listing, masked_images, cxr_png, images_df,
                   test_list, val_list, test_set, train_val_set, val_set, train_set,
                   made_dirs, moved, ms_error>>
    /\ UNCHANGED <<vars3d, varsDec, varsShen, varsKnn>>

\* line 121: the images with masks
MsImages ==
    /\ pcMs = "listed"
    /\ LET has_mask(image) == \E i \in DOMAIN mask_names : mask_names[i] = image
       IN  \E with_masks \in {SelectSeq(image_names, has_mask)} :
              images_df' = DataFrame([i \in DOMAIN with_masks |->
                                         with_masks[i] \o <<".", "png">>])
    /\ pcMs' = "framed"
    /\ UNCHANGED <<image_listing, mask_listing, masked_images, cxr_png, image_names,
                   mask_names, test_list, val_list, test_set, train_val_set, val_set,
                   train_set, made_dirs, moved, ms_error>>
    /\ UNCHANGED <<vars3d, varsDec, varsShen, varsKnn>>

\* lines 124-125: the indices for val and test
MsIndices ==
    /\ pcMs = "framed"
    /\ test_list' = range(0, TotalImages, ceil(TotalImages, TestLength))
    /\ val_list' = range(0, TrainValImages, ceil(TrainValImages, ValLength))
    /\ pcMs' = "indexed"
    /\ UNCHANGED <<image_listing, mask_listing, masked_images, cxr_png, image_names,
                   mask_names, images_df, test_set, train_val_set, val_set, train_set,
                   made_dirs, moved, ms_error>>
    /\ UNCHANGED <<vars3d, varsDec, varsShen, varsKnn>>

\* lines 127-128: the test set, and what is left of the frame
MsTestSplit ==
    /\ pcMs = "indexed"
    /\ \E picked \in {iloc(images_df, test_list)}, rest \in {drop(images_df, test_list)} :
          IF picked.raised # "none" \/ rest.raised # "none"
          THEN /\ pcMs' = "raised"
               /\ ms_error' = IF picked.raised # "none" THEN picked.raised ELSE rest.raised
               /\ UNCHANGED <<test_set, train_val_set>>
          ELSE /\ pcMs' = "tested"
               /\ test_set' = picked.df
               /\ train_val_set' = reset_index(rest.df)
               /\ UNCHANGED ms_error
    /\ UNCHANGED <<image_listing, mask_listing, masked_images, cxr_png, image_names,
                   mask_names, images_df, test_list, val_list, val_set, train_set,
                   made_dirs, moved>>
    /\ UNCHANGED <<vars3d, varsDec, varsShen, varsKnn>>

\* lines 130-131: the val set and the train set
MsValSplit ==
    /\ pcMs = "tested"
    /\ \E picked \in {iloc(train_val_set, val_list)}, rest \in {drop(train_val_set, val_list)} :
          IF picked.raised # "none" \/ rest.raised # "none"
          THEN /\ pcMs' = "raised"
               /\ ms_error' = IF picked.raised # "none" THEN picked.raised ELSE rest.raised
               /\ UNCHANGED <<val_set, train_set>>
          ELSE /\ pcMs' = "selected"
               /\ val_set' = picked.df
               /\ train_set' = rest.df
               /\ UNCHANGED ms_error
    /\ UNCHANGED <<image_listing, mask_listing, masked_images, cxr_png, image_names,
                   mask_names, images_df, test_list, val_list, test_set, train_val_set,
                   made_dirs, moved>>
    /\ UNCHANGED <<vars3d, varsDec, varsShen, varsKnn>>

\* lines 133-135: os.makedirs(..., exist_ok=True) for the three splits
MsMakeDirs ==
    /\ pcMs = "selected"
    /\ made_dirs' = made_dirs \cup {"train", "val", "test"}
    /\ pcMs' = "train"
    /\ UNCHANGED <<image_listing, mask_listing, masked_images, cxr_png, image_names,
                   mask_names, images_df, test_list, val_list, test_set, train_val_set,
                   val_set, train_set, moved, ms_error>>
    /\ UNCHANGED <<vars3d, varsDec, varsShen, varsKnn>>

\* the first name of the list shutil.move finds no source file for: one that
\* is not in the directory, or that an earlier move of the loop took away
FirstMissing(names, present) ==
    LET missing == { i \in DOMAIN names :
                        \/ names[i] \notin present
                        \/ \E j \in 1..(i - 1) : names[j] = names[i] }
    IN  IF missing = {} THEN 0
        ELSE CHOOSE i \in missing : \A j \in missing : i <= j

\* for image in <set>[0]: shutil.move(image_path/image, <dir>/image)
MoveAll(set, dir, next) ==
    /\ \E names \in {column(set)} :
          \E stop \in {FirstMissing(names, cxr_png)} :
             \E done \in {IF stop = 0 THEN names ELSE SubSeq(names, 1, stop - 1)} :
                /\ cxr_png' = cxr_png \ Range(done)
                /\ moved' = [moved EXCEPT ![dir] = moved[dir] \o done]
                /\ IF stop = 0 /\ dir \in made_dirs
                   THEN pcMs' = next /\ UNCHANGED ms_error
                   ELSE pcMs' = "raised" /\ ms_error' = "FileNotFoundError"
    /\ UNCHANGED <<image_listing, mask_listing, masked_images, image_names, mask_names,
                   images_df, test_list, val_list, test_set, train_val_set, val_set,
                   train_set, made_dirs>>
    /\ UNCHANGED <<vars3d, varsDec, varsShen, varsKnn>>

\* lines 137-142
MsMoveTrain == pcMs = "train" /\ MoveAll(train_set, "train", "val")

\* lines 144-149
MsMoveVal == pcMs = "val" /\ MoveAll(val_set, "val", "test")

\* lines 151-156
MsMoveTest == pcMs = "test" /\ MoveAll(test_set, "test", "done")

---------------------------------------------------------------------------
(* Specifications: one per component, the other components at rest *)

Fresh3D ==
    /\ pc = "start"
    /\ encoder_calls = <<>>
    /\ batch_features = <<>>
    /\ outputs = Failed
    /\ post = NoPost

Idle3D ==
    /\ Fresh3D
    /\ data = <<>>
    /\ is_3d = FALSE
    /\ heads = <<>>
    /\ num_classes = 0
    /\ head_out_rank = 2

FreshDec ==
    /\ pcDec = "start"
    /\ decoders = NoDecoders
    /\ optim_param_groups = <<>>
    /\ decoders_len = 0

IdleDec ==
    /\ FreshDec
    /\ learning_rates = <<>>
    /\ decoder_type = "linear"
    /\ distributed_enabled = FALSE

FreshShen ==
    /\ pcShen = "start"
    /\ split_dir = <<>>
    /\ log = <<>>
    /\ listdir_calls = <<>>
    /\ images = <<>>
    /\ shen_error = "none"
    /\ shen_len = 0
    /\ index = 0
    /\ mask = Err
    /\ mask_path = <<>>
    /\ target = Err

IdleShen ==
    /\ FreshShen
    /\ root = <<>>
    /\ split = [kind |-> "str", name |-> "", value |-> ""]
    /\ fs = [dir |-> <<>>, files |-> <<>>]

FreshKnn ==
    /\ pcKnn = "start"
    /\ file = file0
    /\ k_i = 1
    /\ results_dict = <<>>
    /\ classifier = NoClassifier
    /\ knn_calls = <<>>

IdleKnn ==
    /\ nb_knn = <<>>
    /\ file0 = <<>>
    /\ FreshKnn

FreshMs ==
    /\ pcMs = "start"
    /\ image_names = <<>>
    /\ mask_names = <<>>
    /\ images_df = <<>>
    /\ test_list = <<>>
    /\ val_list = <<>>
    /\ test_set = <<>>
    /\ train_val_set = <<>>
    /\ val_set = <<>>
    /\ train_set = <<>>
    /\ made_dirs = {}
    /\ moved = [d \in {"train", "val", "test"} |-> <<>>]
    /\ ms_error = "none"

IdleMs ==
    /\ FreshMs
    /\ image_listing = <<>>
    /\ mask_listing = <<>>
    /\ masked_images = <<>>
    /\ cxr_png = {}

\* feature extraction on batches of up to MaxSlices slices
InitEnc ==
    /\ Fresh3D
    /\ is_3d \in BOOLEAN
    /\ data \in IF is_3d THEN Batches3D(MaxSlices) ELSE Batches2D(MaxSlices)
    /\ heads = SubSeq(HeadNames, 1, 2)
    /\ num_classes = 2
    /\ head_out_rank = 2
    /\ IdleDec /\ IdleShen /\ IdleKnn /\ IdleMs

NextEnc == EncoderForward \/ ClassifierForwardPass

SpecEnc == InitEnc /\ [][NextEnc]_vars

\* the classifier heads on smaller batches, with every ensemble size
InitCls ==
    /\ Fresh3D
    /\ is_3d \in BOOLEAN
    /\ data \in IF is_3d THEN Batches3D(MaxTensorSlices) ELSE Batches2D(MaxTensorSlices)
    /\ heads \in {SubSeq(HeadNames, 1, n) : n \in 1..MaxHeads}
    /\ num_classes \in 2..MaxClasses
    /\ head_out_rank \in {1, 2}
    /\ IdleDec /\ IdleShen /\ IdleKnn /\ IdleMs

SpecCls == InitCls /\ [][NextEnc]_vars

\* the decoder and its postprocessor behind the encoder
InitSeg ==
    /\ Fresh3D
    /\ is_3d \in BOOLEAN
    /\ data \in IF is_3d THEN Batches3D(MaxTensorSlices) ELSE Batches2D(MaxTensorSlices)
    /\ heads = SubSeq(HeadNames, 1, 1)
    /\ num_classes \in 2..MaxClasses
    /\ head_out_rank = 2
    /\ IdleDec /\ IdleShen /\ IdleKnn /\ IdleMs

NextSeg == EncoderForward \/ PostprocessorForward

SpecSeg == InitSeg /\ [][NextSeg]_vars

\* setup_decoders on every sweep of 1..MaxLrs learning rates, no rate twice
InitDec ==
    /\ FreshDec
    /\ learning_rates \in { l \in UNION { [1..n -> LrValues] : n \in 1..MaxLrs } :
                               \A i, j \in DOMAIN l : l[i] = l[j] => i = j }
    /\ decoder_type \in {"linear", "mlp"}
    /\ distributed_enabled \in BOOLEAN
    /\ Idle3D /\ IdleShen /\ IdleKnn /\ IdleMs

NextDec == SetupDecoders \/ DecodersLen

SpecDec == InitDec /\ [][NextDec]_vars

\* the directory the file system holds: that of one of the three splits
SplitDirs(r) == { r \o <<sep, s.value>> : s \in SplitMembers }

\* Shenzhen on small directories: construction and get_target
InitShen ==
    /\ FreshShen
    /\ root \in Roots
    /\ split \in SplitMembers \cup ForeignSplits
    /\ fs \in { [dir |-> d, files |-> l] : d \in SplitDirs(root), l \in Listings(MaxFiles) }
    /\ Idle3D /\ IdleDec /\ IdleKnn /\ IdleMs

NextShen == Construct \/ GetLength \/ GetTarget

SpecShen == InitShen /\ [][NextShen]_vars

\* Shenzhen on directories whose size is at most MaxSizeDelta away from the
\* canonical size of their split
InitShenSize ==
    /\ FreshShen
    /\ root \in Roots
    /\ split \in SplitMembers \cup ForeignSplits
    /\ fs \in { [dir |-> d, files |-> Scans(n)] :
                d \in SplitDirs(root),
                n \in UNION { (length(s) - MaxSizeDelta)..(length(s) + MaxSizeDelta) :
                              s \in SplitMembers } }
    /\ Idle3D /\ IdleDec /\ IdleKnn /\ IdleMs

NextShenSize == Construct \/ GetLength

SpecShenSize == InitShenSize /\ [][NextShenSize]_vars

\* eval_knn_with_model on every list of at most MaxKs k values
InitKnn ==
    /\ nb_knn \in UNION { [1..n -> KValues] : n \in 0..MaxKs }
    /\ file0 \in UNION { [1..n -> OldLines] : n \in 0..MaxOldLines }
    /\ FreshKnn
    /\ Idle3D /\ IdleDec /\ IdleShen /\ IdleMs

NextKnn == KnnExtract \/ KnnFit \/ KnnPredict \/ KnnMetrics \/ KnnWrite

SpecKnn == InitKnn /\ [][NextKnn]_vars

---------------------------------------------------------------------------
(* Claims about the 3D pipeline *)

NonEmpty(scan) == \E p \in DOMAIN scan : scan[p] # 0

\* the non-empty slices of a volume, in slice order
ValidOf(volume) == SelectSeq(volume, NonEmpty)

\* the non-empty slices of the whole batch, in sample order then slice order
ValidSlices == Flatten([b \in DOMAIN data |-> ValidOf(data[b])])

\* C1: after 3D feature extraction (DINOV2Encoder.forward with is_3d, or the 3D
\* branch of classifier_forward_pass) the encoder has been invoked exactly once
\* per non-empty slice, in order, never on an all-zero slice, and each sample's
\* output is the sequence of the embeddings of its non-empty slices in their
\* original order.
C1_EmptySlicesSkipped ==
    (pc \in {"encoded", "classified"} /\ is_3d) =>
        /\ Len(encoder_calls) = Len(ValidSlices)
        /\ \A i \in DOMAIN encoder_calls : encoder_calls[i] = <<ValidSlices[i]>>
        /\ Len(batch_features) = Len(data)
        /\ \A b \in DOMAIN data :
              /\ Len(batch_features[b]) = Len(ValidOf(data[b]))
              /\ \A i \in DOMAIN batch_features[b] :
                    batch_features[b][i] = forward_(<<ValidOf(data[b])[i]>>)

\* C1's case: a volume of 5 slices whose slices 1 and 3 (counted from 0) are
\* all zero has been encoded into 3 embeddings
C1_Witness ==
    /\ pc = "encoded"
    /\ is_3d
    /\ Len(data) = 1
    /\ Len(data[1]) = 5
    /\ \A i \in 1..5 : is_zero_matrix(data[1][i]) <=> i \in {2, 4}
    /\ Len(batch_features[1]) = 3
    /\ Len(encoder_calls) = 3

\* C8: the 3D branch of classifier_forward_pass returns one entry per head, in
\* declaration order, the entry of head h holding what h produced for every
\* batch entry, in batch order.
C8_PerHeadMapping ==
    (pc = "classified" /\ is_3d) =>
        /\ outputs.ok
        /\ Len(outputs.items) = Len(heads)
        /\ \A i \in DOMAIN outputs.items :
              /\ outputs.items[i].key = heads[i]
              /\ outputs.items[i].value.shape[1] = Len(data)
              /\ outputs.items[i].value.data =
                    Flatten([b \in DOMAIN data |->
                        HeadForward(heads[i], batch_features[b], <<>>).data])

\* C9: for a 3D batch LinearPostprocessor.forward returns predictions and
\* targets with one leading entry per non-empty slice of the batch, in sample
\* order then slice order, prediction i and target i being those of slice i.
C9_FlattenedAlignment ==
    (pc = "post" /\ is_3d) =>
        /\ post.ok
        /\ post.preds.shape[1] = Len(ValidSlices)
        /\ post.target.shape[1] = Len(ValidSlices)
        /\ \A i \in DOMAIN ValidSlices :
              /\ \A e \in Range(Rows(post.preds)[i].data) :
                    \A c \in DOMAIN e.argmax_over :
                        /\ e.argmax_over[c].src = forward_(<<ValidSlices[i]>>).data
                        /\ e.argmax_over[c].cls = c - 1
              /\ \A e \in Range(Rows(post.target)[i].data) : e.of = ValidSlices[i]

---------------------------------------------------------------------------
(* Claims about setup_decoders *)

\* C2: for every list of learning rates the ensemble has one uniquely-keyed
\* decoder per learning rate of the list and one parameter group per learning
\* rate, each group holding the parameters of its own decoder and tagged with
\* that rate; decoders, groups and list are equally many.
C2_OneDecoderPerRate ==
    (pcDec # "start" /\ decoder_type = "linear") =>
        /\ pcDec \in {"done", "measured"}
        /\ Len(decoders.decoders_dict) = Len(learning_rates)
        /\ pcDec = "measured" => decoders_len = Len(learning_rates)
        /\ Len(optim_param_groups) = Len(learning_rates)
        /\ \A i, j \in DOMAIN decoders.decoders_dict :
              decoders.decoders_dict[i].key = decoders.decoders_dict[j].key => i = j
        /\ \A i \in DOMAIN optim_param_groups :
              /\ optim_param_groups[i].lr = learning_rates[i]
              /\ \E j \in DOMAIN decoders.decoders_dict :
                    /\ decoders.decoders_dict[j].key = decoder_key("linear", learning_rates[i])
                    /\ decoders.decoders_dict[j].module = optim_param_groups[i].params

---------------------------------------------------------------------------
(* Claims about Shenzhen *)

\* the constructor was handed a member of _Split and the directory of that
\* split exists
OnSplitDirectory == split \in SplitMembers /\ fs.dir = root \o <<sep, split.value>>

\* the file count of the directory differs from the canonical size of the split
SizeMismatch == OnSplitDirectory /\ Len(fs.files) # length(split)

MissingCountRecords(level) ==
    { i \in DOMAIN log :
        /\ log[i].level = level
        /\ log[i].missing = length(split) - Len(fs.files)
        /\ log[i].set = upper(split.value) }

Recognized == split.value \in {"train", "val", "test"}

GotTarget == pcShen = "read" /\ index \in DOMAIN images

\* C5: get_target maps every pixel of value 255 to class id 1, leaves every
\* other pixel unchanged, and keeps the shape of the mask behind a new
\* leading dimension of size 1.
C5_MaskRemapped ==
    GotTarget =>
        /\ target.ok
        /\ target.shape = <<1>> \o mask.shape
        /\ Len(target.data) = Len(mask.data)
        /\ \A p \in DOMAIN mask.data :
              target.data[p] = IF mask.data[p] = 255 THEN 1 ELSE mask.data[p]

\* C5's case: a mask holding 0, 255 and 128 has become 0, 1 and 128
C5_Witness ==
    /\ GotTarget
    /\ mask.data = <<0, 255, 128>>
    /\ target.data = <<0, 1, 128>>

\* the file name without its extension: what precedes its last "."
RECURSIVE Stem(_)
Stem(name) ==
    IF \A i \in DOMAIN name : name[i] # "." THEN name
    ELSE IF name[Len(name)] = "." THEN SubSeq(name, 1, Len(name) - 1)
    ELSE Stem(SubSeq(name, 1, Len(name) - 1))

MaskOf(name) == root \o <<sep, "masks", sep>> \o Stem(name) \o <<"_mask", ".", "png">>

\* C6: the mask get_target loads for an image is <image_stem>_mask.png in the
\* masks directory, the stem being the file name without its extension, and
\* two image files of a split never resolve to the same mask.
C6_MaskNamedAfterStem ==
    GotTarget =>
        /\ mask_path = MaskOf(images[index])
        /\ \A i, j \in DOMAIN images :
              mask_path_of(root, images[i]) = mask_path_of(root, images[j]) => i = j

---------------------------------------------------------------------------
(* Claims about eval_knn_with_model *)

\* the lines the run appended
Appended == SubSeq(file, Len(file0) + 1, Len(file))

\* C7 as stated: a successful run appends one line per evaluated k, in
\* evaluation order, each with that k as its single key, and leaves the lines
\* already in the file unchanged, also when the list repeats a k.
C7_OneLinePerListedK ==
    pcKnn = "written" =>
        /\ Len(file) = Len(file0) + Len(nb_knn)
        /\ SubSeq(file, 1, Len(file0)) = file0
        /\ \A i \in DOMAIN nb_knn : file[Len(file0) + i].key = str(nb_knn[i])

\* the positions of nb_knn that hold the first occurrence of their k
FirstAt == { i \in DOMAIN nb_knn : \A j \in 1..(i - 1) : nb_knn[j] # nb_knn[i] }

\* C7 as amended: one line per distinct k, in the order of the first
\* occurrences, holding the result of the last evaluation of that k.
C7_OneLinePerDistinctK ==
    pcKnn = "written" =>
        /\ Len(file) = Len(file0) + Cardinality(FirstAt)
        /\ SubSeq(file, 1, Len(file0)) = file0
        /\ \A i \in FirstAt :
              LET line == Appended[Cardinality({j \in FirstAt : j <= i})]
              IN  /\ line.key = str(nb_knn[i])
                  /\ line.value.k = nb_knn[i]
                  /\ nb_knn[line.value.run] = nb_knn[i]
                  /\ \A j \in DOMAIN nb_knn : nb_knn[j] = nb_knn[i] => j <= line.value.run

\* C7's case: a run over a list that repeats a k has been written behind the
\* lines the file held
C7_Witness ==
    /\ pcKnn = "written"
    /\ nb_knn = <<5, 20, 5>>
    /\ file0 # <<>>
    /\ Len(Appended) = 2

\* C10: every predict is made on the classifier of its iteration, freshly
\* constructed and fit just before; nothing is appended to the results file
\* unless every k has been evaluated, so a run that fails appends nothing.
C10_NoPartialResults ==
    /\ \A j \in DOMAIN knn_calls :
          /\ knn_calls[j].op = "predict" =>
                /\ j >= 3
                /\ knn_calls[j - 1] = [op |-> "fit", id |-> knn_calls[j].id]
                /\ knn_calls[j - 2] = [op |-> "new", id |-> knn_calls[j].id]
          /\ knn_calls[j].op = "new" =>
                \A i \in 1..(j - 1) : knn_calls[i].id # knn_calls[j].id
    /\ pcKnn # "written" => file = file0
    /\ pcKnn = "written" => k_i = Len(nb_knn) + 1
    /\ file # file0 => Len(knn_calls) = 3 * Len(nb_knn)

\* C10's case: the run failed after a k had been evaluated, and the file is as
\* it was
C10_Witness ==
    /\ pcKnn = "failed"
    /\ k_i = 2
    /\ Len(results_dict) >= 1
    /\ file0 # <<>>
    /\ file = file0

---------------------------------------------------------------------------
(* make_splits on the data set, and the claims about it *)

\* an image has a mask: the masks directory holds <image_stem>_mask.png
HasMask(f) ==
    \E m \in {Stem(f) \o <<"_", "mask", ".", "png">>} :
       \E i \in DOMAIN mask_listing : mask_listing[i] = m

\* make_splits on a data set of TotalImages images with masks, give or take
\* MaxCountDelta, among them images without a mask and masks without an
\* image, in each of the enumeration orders
InitMs ==
    /\ FreshMs
    /\ \E n \in (TotalImages - MaxCountDelta)..(TotalImages + MaxCountDelta),
          u \in 0..MaxUnmasked, o \in 0..MaxOrphanMasks, order \in Orders :
          /\ image_listing = ImageListing(u, n, order)
          /\ mask_listing = MaskListing(u, n, o)
    /\ masked_images = SelectSeq(image_listing, HasMask)
    /\ cxr_png = Range(image_listing)
    /\ Idle3D /\ IdleDec /\ IdleShen /\ IdleKnn

NextMs ==
    \/ MsList \/ MsImages \/ MsIndices \/ MsTestSplit \/ MsValSplit
    \/ MsMakeDirs \/ MsMoveTrain \/ MsMoveVal \/ MsMoveTest

SpecMs == InitMs /\ [][NextMs]_vars

SplitNamed(v) == CHOOSE s \in SplitMembers : s.value = v

\* the split of the image at position p (from 0) among the images that have
\* masks: every fifth goes to test, and every fifth of the others to val
SplitOfPosition(p) ==
    IF p % 5 = 0 THEN "test"
    ELSE IF (p - (p \div 5) - 1) % 5 = 0 THEN "val"
    ELSE "train"

InSplit(f, d) == \E k \in DOMAIN moved[d] : moved[d][k] = f

\* C11: given exactly 566 images that have masks, make_splits ends with every
\* one of them moved into exactly one of train, val and test (the three are
\* pairwise disjoint and together hold all 566), the sizes are the lengths
\* 361, 91 and 114 of _Split.length, and the split of an image is a function
\* of its position in the enumeration order alone.
C11_SplitsPartition ==
    (pcMs \in {"raised", "done"} /\ Len(masked_images) = TotalImages) =>
        /\ pcMs = "done"
        /\ \A d \in {"train", "val", "test"} : Len(moved[d]) = length(SplitNamed(d))
        /\ \A p \in DOMAIN masked_images :
              \A d \in {"train", "val", "test"} :
                 InSplit(masked_images[p], d) <=> d = SplitOfPosition(p - 1)
        /\ Range(moved["train"]) \cup Range(moved["val"]) \cup Range(moved["test"])
              = Range(masked_images)
        /\ cxr_png = Range(image_listing) \ Range(masked_images)

\* C11's case: make_splits has run to its end on a directory that holds 566
\* images with masks after an image without one, and has left that one behind
C11_Witness ==
    /\ pcMs = "done"
    /\ Len(masked_images) = TotalImages
    /\ Len(image_listing) > TotalImages
    /\ ~HasMask(image_listing[1])
    /\ image_listing[1] \in cxr_png
    /\ Len(moved["train"]) = TrainLength

===========================================================================
